---- MODULE Spec2Model ----
(***************************************************************************)
(* Model of the log-archive durable Lambda handler                         *)
(* (src/funcs/log-archive.lambda.ts, reproduced in src/README.md lines     *)
(* 278-506): tag based discovery of log groups, one export task controller *)
(* per log group (create, poll, retry once), run through context.map with  *)
(* maxConcurrency 1, and the handler's result.                             *)
(*                                                                         *)
(* Strings the code inspects character by character (log group names,     *)
(* ARNs, destination prefixes) are sequences of one-character strings.     *)
(* An instant (a JS time value, milliseconds since the epoch) is a record  *)
(* [day, ms] = day * 86400000 + ms with 0 <= ms < 86400000, because the    *)
(* millisecond count of a present-day date does not fit a 32-bit integer.  *)
(***************************************************************************)
EXTENDS Integers, Sequences, FiniteSets, TLC

(***************************************************************************)
(* Program constants                                                       *)
(***************************************************************************)
RUNNING_WAIT_SECONDS == 10
PENDING_WAIT_SECONDS == 3
MsPerDay == 1000 * 60 * 60 * 24
\* durableConfig.executionTimeout of the construct: Duration.hours(2), in ms
ExecutionTimeoutMs == 2 * 60 * 60 * 1000

(***************************************************************************)
(* Bounds of the model                                                     *)
(***************************************************************************)
\* polls of one export task before the service must report a terminal status
MaxPolls == 2
\* pages of one tag discovery
MaxPages == 2
\* log groups one discovery may return in total
MaxSources == 3
MaxNameLen == 3
MaxArnLen == 7
MaxLoopPolls == 3
MaxResumes == 1
MaxPathLen == 2

(***************************************************************************)
(* Instants and the JS Date arithmetic                                     *)
(***************************************************************************)
\* const x = v; ...: Body of the value of v, v being evaluated once
Bind(v, Body(_)) == CHOOSE r \in {Body(x) : x \in {v}} : TRUE

Instant(dy, m) == [day |-> dy, ms |-> m]

\* t + k milliseconds, for |k| below 2^30
AddMs(t, k) ==
  Bind(t, LAMBDA tv :
    Bind(tv.ms + k, LAMBDA total :
      LET carry == IF total >= 0 THEN total \div MsPerDay
                                 ELSE -(((-total) + MsPerDay - 1) \div MsPerDay)
      IN  Instant(tv.day + carry, total - carry * MsPerDay)))

InstantLE(a, b) == a.day < b.day \/ (a.day = b.day /\ a.ms <= b.ms)

\* b - a in milliseconds when the two are at most a few days apart
DiffMs(a, b) == (b.day - a.day) * MsPerDay + (b.ms - a.ms)

\* Day number (days since 1970-01-01) of a proleptic Gregorian date: ECMAScript MakeDay
DaysFromCivil(y0, m0, d0) ==
  Bind(<<y0, m0, d0>>, LAMBDA ymd :
  LET y   == ymd[1]
      m   == ymd[2]
      d   == ymd[3]
      yy  == IF m <= 2 THEN y - 1 ELSE y
      era == yy \div 400
      yoe == yy - era * 400
      mp  == IF m > 2 THEN m - 3 ELSE m + 9
      doy == (153 * mp + 2) \div 5 + d - 1
      doe == yoe * 365 + yoe \div 4 - yoe \div 100 + doy
  IN  era * 146097 + doe - 719468)

\* Date [y, m, d] (m in 1..12) of a day number: ECMAScript YearFromTime, MonthFromTime, DateFromTime
CivilFromDays(z0) ==
  Bind(z0 + 719468, LAMBDA z :
  LET era == z \div 146097
      doe == z - era * 146097
      yoe == (doe - doe \div 1460 + doe \div 36524 - doe \div 146096) \div 365
      doy == doe - (365 * yoe + yoe \div 4 - yoe \div 100)
      mp  == (5 * doy + 2) \div 153
      d   == doy - (153 * mp + 2) \div 5 + 1
      m   == IF mp < 10 THEN mp + 3 ELSE mp - 9
      y   == yoe + era * 400 + (IF m <= 2 THEN 1 ELSE 0)
  IN  [y |-> y, m |-> m, d |-> d])

\* The local time zone of the host: the offset (minutes east of UTC) in force before
\* its first change, and its changes of offset (daylight saving) in order
FixedZone(minutes) == [std |-> minutes, changes |-> <<>>]

\* The offset in force at instant t: ECMAScript LocalTZA(t, true)
OffsetAt(zone, t) ==
  Bind(Cardinality({i \in 1..Len(zone.changes) : InstantLE(zone.changes[i].at, t)}), LAMBDA n :
    IF n = 0 THEN zone.std ELSE zone.changes[n].offset)

\* ECMAScript LocalTime(t)
LocalTime(t, zone) == AddMs(t, OffsetAt(zone, t) * 60000)

\* ECMAScript UTC(l), l being a local time value: the instant whose local time is l,
\* and, for a local time that is repeated or skipped by a change of offset, the one
\* reckoned with the offset in force before the change
UtcOfLocal(l, zone) ==
  Bind(<<l, zone>>, LAMBDA lz :
    LET lv    == lz[1]
        ch    == lz[2].changes
        n     == Len(ch)
        offs  == [i \in 1..(n + 1) |-> IF i = 1 THEN lz[2].std ELSE ch[i - 1].offset]
        At(i) == AddMs(lv, -(offs[i] * 60000))
        fits  == {i \in 1..(n + 1) : i = n + 1 \/ ~InstantLE(ch[i].at, At(i))}
        first == CHOOSE i \in fits : \A j \in fits : i <= j
    IN  IF first > 1 /\ ~InstantLE(ch[first - 1].at, At(first))
          THEN At(first - 1)
          ELSE At(first))

\* The local-time fields of instant t on a host in zone tz: getFullYear(),
\* getMonth() (0-based), getDate()
getFullYear(t, tz) == CivilFromDays(LocalTime(t, tz).day).y
getMonth(t, tz)    == CivilFromDays(LocalTime(t, tz).day).m - 1
getDate(t, tz)     == CivilFromDays(LocalTime(t, tz).day).d

\* new Date(y, monthIndex, d, 0, 0, 0, 0).getTime() on that host: local midnight
NewDateLocal(y, mi, d, tz) == UtcOfLocal(Instant(DaysFromCivil(y, mi + 1, d), 0), tz)

(***************************************************************************)
(* Strings                                                                 *)
(***************************************************************************)
DigitChars == <<"0", "1", "2", "3", "4", "5", "6", "7", "8", "9">>

\* String(n) for n >= 0
RECURSIVE NumToStr(_)
NumToStr(n) ==
  Bind(n, LAMBDA nv :
    IF nv < 10 THEN <<DigitChars[nv + 1]>>
               ELSE Append(NumToStr(nv \div 10), DigitChars[(nv % 10) + 1]))

\* s.slice(-k)
SliceLast(s, k) ==
  Bind(s, LAMBDA sv : IF Len(sv) <= k THEN sv ELSE SubSeq(sv, Len(sv) - k + 1, Len(sv)))

\* s.replace(/c/g, r) for a one-character pattern c: every c of either half of s
\* replaced
RECURSIVE ReplaceAll(_, _, _)
ReplaceAll(s, c, r) ==
  Bind(s, LAMBDA sv :
    IF sv = <<>> THEN <<>>
    ELSE IF Len(sv) = 1 THEN (IF sv[1] = c THEN r ELSE sv)
    ELSE ReplaceAll(SubSeq(sv, 1, Len(sv) \div 2), c, r)
           \o ReplaceAll(SubSeq(sv, Len(sv) \div 2 + 1, Len(sv)), c, r))

\* s.replace(/^-/, '')
StripLeadingDash(s) ==
  Bind(s, LAMBDA sv : IF sv # <<>> /\ Head(sv) = "-" THEN Tail(sv) ELSE sv)

\* The fields of a string cut in two, from the fields of its halves: the last field
\* of the first half and the first field of the second are one field
JoinFields(halves) ==
  LET a == halves[1]
      b == halves[2]
  IN  SubSeq(a, 1, Len(a) - 1) \o << a[Len(a)] \o b[1] >> \o Tail(b)

\* s.split(c) for a one-character separator c
RECURSIVE Split(_, _)
Split(s, c) ==
  Bind(s, LAMBDA sv :
    IF sv = <<>> THEN << <<>> >>
    ELSE IF Len(sv) = 1 THEN (IF sv[1] = c THEN << <<>>, <<>> >> ELSE <<sv>>)
    ELSE Bind(<<Split(SubSeq(sv, 1, Len(sv) \div 2), c),
                Split(SubSeq(sv, Len(sv) \div 2 + 1, Len(sv)), c)>>, JoinFields))

\* Mutation of getLogGroupNameFromArn: the name is taken to be the last field
getLogGroupNameFromArn_LastField(arn) ==
  Bind(Split(arn, ":"), LAMBDA parts : parts[Len(parts)])

\* Mutation of getLogGroupNameFromArn: parts[6] || arn, an empty field counts as absent
getLogGroupNameFromArn_OrArn(arn) ==
  Bind(Split(arn, ":"), LAMBDA parts : IF Len(parts) >= 7 /\ parts[7] # <<>> THEN parts[7] ELSE arn)

\* getLogGroupNameFromArn: parts[6] ?? arn
getLogGroupNameFromArn(arn) ==
  Bind(Split(arn, ":"), LAMBDA parts : IF Len(parts) >= 7 THEN parts[7] ELSE arn)

(***************************************************************************)
(* createExportLogGroup: what it computes before the create step           *)
(***************************************************************************)
\* Mutation of safeLogGroupName: the leading "-" is removed before the "/" are replaced
safeLogGroupName_StripFirst(logGroupName) ==
  ReplaceAll(ReplaceAll(StripLeadingDash(logGroupName), "/", <<"-">>), ".", <<"-", "-">>)

\* logGroupName.replace(/\//g, '-').replace(/^-/, '').replace(/\./g, '--')
safeLogGroupName(logGroupName) ==
  ReplaceAll(StripLeadingDash(ReplaceAll(logGroupName, "/", <<"-">>)), ".", <<"-", "-">>)

\* new Date(now.getFullYear(), now.getMonth(), now.getDate(), 0, 0, 0, 0).getTime() - 24h
targetFromTime(n, z) ==
  AddMs(NewDateLocal(getFullYear(n, z), getMonth(n, z), getDate(n, z), z), -(1000 * 60 * 60 * 24))

\* targetFromTime + (1000 * 60 * 60 * 24) + 999
targetToTime(from) == AddMs(from, (1000 * 60 * 60 * 24) + 999)

\* ('00' + (targetDate.getMonth() + 1)).slice(-2)
PaddedMonth(from, z) == SliceLast(<<"0", "0">> \o NumToStr(getMonth(from, z) + 1), 2)

\* ('00' + targetDate.getDate()).slice(-2)
PaddedDate(from, z) == SliceLast(<<"0", "0">> \o NumToStr(getDate(from, z)), 2)

\* `${safeLogGroupName}/${y}/${m}/${d}/`
destinationPrefix(logGroupName, from, z) ==
  safeLogGroupName(logGroupName) \o <<"/">> \o NumToStr(getFullYear(from, z)) \o <<"/">>
    \o PaddedMonth(from, z) \o <<"/">> \o PaddedDate(from, z) \o <<"/">>

\* The CreateExportTaskCommand input built at instant n on a host in zone z
CreateExportTaskInput(bucket, logGroupName, n, z) ==
  Bind(targetFromTime(n, z), LAMBDA from :
    [destination       |-> bucket,
     logGroupName      |-> logGroupName,
     from              |-> from,
     to                |-> targetToTime(from),
     destinationPrefix |-> destinationPrefix(logGroupName, from, z)])

NoRequest ==
  [destination |-> "", logGroupName |-> <<>>, from |-> Instant(0, 0), to |-> Instant(0, 0),
   destinationPrefix |-> <<>>]

(***************************************************************************)
(* createExportLogGroup: the poll loop                                     *)
(***************************************************************************)
SuccessStatuses == {"COMPLETED", "CANCELLED", "PENDING_CANCEL"}

\* cwLogs.send / taggingClient.send rejects: the service refuses the request with an
\* error, given here by its name
ServiceErrors == {"AccessDeniedException", "LimitExceededException", "ThrottlingException"}

\* The response is a rejection
Rejects(resp) == resp \in ServiceErrors

\* The message of the error a service raises on a request for action
ServiceMessage(name, action) ==
  IF name = "AccessDeniedException" THEN "User is not authorized to perform: " \o action
  ELSE IF name = "LimitExceededException" THEN "Resource limit exceeded"
  ELSE "Rate exceeded"

\* The messages of the errors of the export service
ExportServiceMessages ==
  {ServiceMessage(e, a) : e \in ServiceErrors,
                         a \in {"logs:CreateExportTask", "logs:DescribeExportTasks"}}

\* The errors each request is refused with in the runs
GetResourcesRejections == {"AccessDeniedException"}
CreateRejections == {"AccessDeniedException", "LimitExceededException"}
DescribeRejections == {"ThrottlingException"}

\* What DescribeExportTasks may answer: the six status codes, a code the handler
\* does not know, a response without exportTasks[0].status.code, or a rejection
DescribeResponses ==
  {"COMPLETED", "CANCELLED", "PENDING_CANCEL", "FAILED", "RUNNING", "PENDING",
   "UNKNOWN_CODE", "<missing>"} \cup DescribeRejections

TerminalResponses == {"COMPLETED", "CANCELLED", "PENDING_CANCEL", "FAILED"}

\* describe.exportTasks?.[0]?.status?.code ?? 'PENDING'
StatusOfResponse(resp) == IF resp = "<missing>" THEN "PENDING" ELSE resp

\* Mutation of AfterDescribe: FAILED is retried whether or not this is the retry
AfterDescribe_AlwaysRetry(st, rt) ==
  IF st \in {"COMPLETED", "CANCELLED", "PENDING_CANCEL"} THEN "return"
  ELSE IF st = "FAILED" THEN "retry-wait"
  ELSE IF st = "RUNNING" THEN "running-wait"
  ELSE "pending-wait"

\* Mutation of AfterDescribe: the retry's result is not returned (the recursive call
\* is awaited without return), so the caller goes on to its throw
AfterDescribe_RetryNotReturned(st, rt) ==
  IF st \in {"COMPLETED", "CANCELLED", "PENDING_CANCEL"} THEN (IF rt THEN "throw" ELSE "return")
  ELSE IF st = "FAILED" THEN (IF ~rt THEN "retry-wait" ELSE "throw")
  ELSE IF st = "RUNNING" THEN "running-wait"
  ELSE "pending-wait"

\* Mutation of AfterDescribe: PENDING_CANCEL is not among the success statuses and
\* falls to the default branch
AfterDescribe_PendingCancelPolled(st, rt) ==
  IF st \in {"COMPLETED", "CANCELLED"} THEN "return"
  ELSE IF st = "FAILED" THEN (IF ~rt THEN "retry-wait" ELSE "throw")
  ELSE IF st = "RUNNING" THEN "running-wait"
  ELSE "pending-wait"

\* Mutation of AfterDescribe: a status code the handler does not know is an error
AfterDescribe_ThrowOnUnknown(st, rt) ==
  IF st \in {"COMPLETED", "CANCELLED", "PENDING_CANCEL"} THEN "return"
  ELSE IF st = "FAILED" THEN (IF ~rt THEN "retry-wait" ELSE "throw")
  ELSE IF st = "RUNNING" THEN "running-wait"
  ELSE IF st = "PENDING" THEN "pending-wait"
  ELSE "throw"

\* The branch the loop body takes on a polled status
AfterDescribe(st, rt) ==
  IF st \in {"COMPLETED", "CANCELLED", "PENDING_CANCEL"} THEN "return"
  ELSE IF st = "FAILED" THEN (IF ~rt THEN "retry-wait" ELSE "throw")
  ELSE IF st = "RUNNING" THEN "running-wait"
  ELSE "pending-wait"

NoTask == [item |-> 0, attempt |-> 0]

\* `export-${index}`, the stepName the map's item function gives the controller of
\* the item at index (from 0)
ExportStepName(index) == <<"e", "x", "p", "o", "r", "t", "-">> \o NumToStr(index)

\* Mutation of RetryStepName: the retry is called with the stepName of the first attempt
RetryStepName_Same(sn) == sn

\* `${stepName}-retry`, the stepName of the recursive call
RetryStepName(sn) == sn \o <<"-", "r", "e", "t", "r", "y">>

\* `${stepName}-create`, the name of the create step
CreateStepName(sn) == sn \o <<"-", "c", "r", "e", "a", "t", "e">>

\* No DescribeExportTasksCommand sent yet
NoDescribe == [taskId |-> NoTask]

\* `${stepName}-describe`
DescribeStepName(sn) == sn \o <<"-", "d", "e", "s", "c", "r", "i", "b", "e">>

\* `${stepName}-retry-wait`
RetryWaitName(sn) == sn \o <<"-", "r", "e", "t", "r", "y", "-", "w", "a", "i", "t">>

\* `${stepName}-running-wait`
RunningWaitName(sn) == sn \o <<"-", "r", "u", "n", "n", "i", "n", "g", "-", "w", "a", "i", "t">>

\* `${stepName}-pending-wait`
PendingWaitName(sn) == sn \o <<"-", "p", "e", "n", "d", "i", "n", "g", "-", "w", "a", "i", "t">>

\* 'get-resources'
GetResourcesStepName == <<"g", "e", "t", "-", "r", "e", "s", "o", "u", "r", "c", "e", "s">>

\* Mutation of DescribeExportTasksInput: the poll names the task of the source's first
\* create, also after the retry created another
DescribeExportTasksInput_FirstAttempt(tid) == [taskId |-> [tid EXCEPT !.attempt = 1]]

\* new DescribeExportTasksCommand({ taskId }), taskId being the const of the
\* createExportLogGroup call that runs the loop
DescribeExportTasksInput(tid) == [taskId |-> tid]

(***************************************************************************)
(* The handler's inputs                                                    *)
(***************************************************************************)
Has(obj, f) == f \in DOMAIN obj

NoFields == [f \in {} |-> ""]

Arr(items) == [isArray |-> TRUE, items |-> items]
NotAnArray == [isArray |-> FALSE, items |-> <<>>]

\* process.env
EnvSet ==
  { NoFields,
    "BUCKET_NAME" :> "",
    "BUCKET_NAME" :> "example-log-archive-bucket" }

NameSvc   == <<"/", "s", "/", "a", ".", "b">>
NameDash  == <<"-", "x", ".", "y">>
NamePlain == <<"m", "y">>

ArnOf(name) ==
  <<"a", ":", "a", ":", "l", ":", "r", ":", "1", ":", "l", "g", ":">> \o name
ArnShort == <<"l", "g", ":", "z">>

\* A JSON value that is not a string (a number, a boolean, an array, an object), by
\* its text, where the handler expects a log group name
JsonValue(text) == <<"<json>", text>>

\* typeof v === 'string'
IsString(v) == Len(v) = 0 \/ v[1] # "<json>"

\* !v, for a string or another JSON value
Falsy(v) == v = <<>> \/ v \in {JsonValue("0"), JsonValue("false"), JsonValue("null")}

\* A payload that is valid JSON and not an object, by its text: null, a number, a
\* string, a boolean
Primitive(text) == ("<primitive>" :> text)
PrimitiveEventSet == {Primitive("null"), Primitive("5"), Primitive("x"), Primitive("true")}

\* 'tagKey' in event throws a TypeError: the right operand is not an object
InOperatorThrows(ev) == Has(ev, "<primitive>")

\* The message of that TypeError
InOperatorMessage(ev) ==
  "Cannot use 'in' operator to search for 'tagKey' in " \o ev["<primitive>"]

\* The trigger payloads
EventSet ==
  { ("tagKey" :> "DailyLogExport" @@ "tagValues" :> Arr(<<"Yes">>)),
    ("tagKey" :> "" @@ "tagValues" :> Arr(<<"Yes">>)),
    ("tagKey" :> "DailyLogExport" @@ "tagValues" :> Arr(<<>>)),
    ("tagKey" :> "" @@ "tagValues" :> Arr(<<"Yes">>) @@ "TargetLogGroupName" :> NameSvc),
    ("tagKey" :> "DailyLogExport" @@ "tagValues" :> NotAnArray @@ "TargetLogGroupName" :> NamePlain),
    ("tagKey" :> "DailyLogExport"),
    ("TargetLogGroupName" :> NameSvc),
    ("TargetLogGroupName" :> NameDash),
    ("TargetLogGroupName" :> <<>>),
    ("TargetLogGroupName" :> JsonValue("5")),
    ("TargetLogGroupName" :> JsonValue("0")),
    NoFields }
    \cup PrimitiveEventSet

\* Mutation of isSchedulerInput: a payload that also names a single log group is not
\* taken as scheduler input
isSchedulerInput_WithoutTarget(ev) ==
  Has(ev, "tagKey") /\ Has(ev, "tagValues") /\ ev["tagValues"].isArray
    /\ ~Has(ev, "TargetLogGroupName")

\* 'tagKey' in event && 'tagValues' in event && Array.isArray(event.tagValues)
isSchedulerInput(ev) ==
  Has(ev, "tagKey") /\ Has(ev, "tagValues") /\ ev["tagValues"].isArray

\* !process.env.BUCKET_NAME
BucketMissing(e) == ~Has(e, "BUCKET_NAME") \/ e["BUCKET_NAME"] = ""

\* Mutation of SchedulerInputInvalid: the values list is not checked
SchedulerInputInvalid_KeyOnly(ev) == ev["tagKey"] = ""

\* !event.tagKey || event.tagValues.length === 0
SchedulerInputInvalid(ev) == ev["tagKey"] = "" \/ Len(ev["tagValues"].items) = 0

\* !event.TargetLogGroupName
TargetMissing(ev) == ~Has(ev, "TargetLogGroupName") \/ Falsy(ev["TargetLogGroupName"])

\* Zones of the host without daylight saving: UTC-10:00, UTC, UTC+09:00
TzSet == {FixedZone(-600), FixedZone(0), FixedZone(540)}

\* Zones of the host with daylight saving, with their changes of offset of 2024:
\* America/New_York, Europe/London, Australia/Lord_Howe
NewYork ==
  [std |-> -300,
   changes |-> << [at |-> Instant(DaysFromCivil(2024, 3, 10), 7 * 3600000), offset |-> -240],
                  [at |-> Instant(DaysFromCivil(2024, 11, 3), 6 * 3600000), offset |-> -300] >>]
London ==
  [std |-> 0,
   changes |-> << [at |-> Instant(DaysFromCivil(2024, 3, 31), 1 * 3600000), offset |-> 60],
                  [at |-> Instant(DaysFromCivil(2024, 10, 27), 1 * 3600000), offset |-> 0] >>]
LordHowe ==
  [std |-> 660,
   changes |-> << [at |-> Instant(DaysFromCivil(2024, 4, 6), 15 * 3600000), offset |-> 630],
                  [at |-> Instant(DaysFromCivil(2024, 10, 5), 15 * 3600000 + 1800000), offset |-> 660] >>]
DstTzSet == {NewYork, London, LordHowe}

\* Instants a new Date() may read
NowSet ==
  { Instant(DaysFromCivil(2023, 3, 1), 9 * 3600000),
    Instant(DaysFromCivil(2023, 12, 31), 13 * 3600000 + 60000),
    Instant(DaysFromCivil(2024, 1, 1), 0),
    Instant(DaysFromCivil(2024, 2, 29), MsPerDay - 1),
    Instant(DaysFromCivil(2024, 3, 1), 2000),
    Instant(DaysFromCivil(2024, 3, 10), 16 * 3600000),
    Instant(DaysFromCivil(2024, 3, 11), 16 * 3600000),
    Instant(DaysFromCivil(2024, 3, 31), 13 * 3600000 + 60000),
    Instant(DaysFromCivil(2024, 4, 1), 13 * 3600000 + 60000),
    Instant(DaysFromCivil(2024, 10, 6), 13 * 3600000 + 60000),
    Instant(DaysFromCivil(2024, 10, 10), 13 * 3600000 + 60000),
    Instant(DaysFromCivil(2024, 11, 3), 13 * 3600000 + 60000),
    Instant(DaysFromCivil(2024, 11, 4), 4 * 3600000 + 1800000),
    Instant(DaysFromCivil(2024, 11, 11), 20 * 3600000) }

\* Host clocks of the runs over discovered log groups: the zone and the invocation
\* instant (one millisecond before a UTC midnight on a UTC host, two seconds after a
\* UTC midnight on a host ten hours behind UTC)
ClockSet ==
  { [zone |-> FixedZone(0),    at |-> Instant(DaysFromCivil(2024, 2, 29), MsPerDay - 1)],
    [zone |-> FixedZone(-600), at |-> Instant(DaysFromCivil(2024, 3, 1), 2000)] }

\* b is an instant the clock may show later in a run that showed a
ClockMayAdvance(a, b) ==
  /\ InstantLE(a, b)
  /\ b.day - a.day <= 1
  /\ DiffMs(a, b) <= ExecutionTimeoutMs

\* One page of GetResources: its ResourceTagMappingList (an entry is <<arn>>, or <<>>
\* when it has no ResourceARN) and its PaginationToken (<<>> when absent)
PageLists ==
  { <<>>,
    << <<ArnOf(NameSvc)>> >>,
    << <<>>, <<ArnShort>> >>,
    << <<ArnOf(NamePlain)>>, <<ArnOf(NameSvc)>> >> }

PageTokens == { <<>>, <<"">>, <<"tokA">>, <<"tokB">> }

\* Every log group name of at most MaxNameLen characters over the characters the
\* sanitizer looks at and one it does not, and two longer names
NameAlphabet == {"/", "-", ".", "a"}
NameSvcAppName == <<"/", "s", "v", "c", "/", "a", "p", "p", ".", "n", "a", "m", "e">>
NameABC == <<"a", "/", "b", "/", "c">>
NameUniverse ==
  UNION {[1..n -> NameAlphabet] : n \in 0..MaxNameLen} \cup {NameSvcAppName, NameABC}

\* Every ARN of at most MaxArnLen characters over the separator and one other
\* character, the ARN of every name, and two longer identifiers of six and of seven
\* fields
ArnAlphabet == {":", "a"}
ArnSixFields == <<"i", "d", ":", "s", "v", "c", ":", "r", "e", "g", "i", "o", "n", ":", "a", "c", "c", "t", ":", "l", "o", "g", "-", "g", "r", "o", "u", "p", ":", "m", "y", "-", "g", "r", "o", "u", "p">>
ArnSevenFields == <<"a", "r", "n", ":", "i", "d", ":", "s", "v", "c", ":", "r", "e", "g", "i", "o", "n", ":", "a", "c", "c", "t", ":", "l", "o", "g", "-", "g", "r", "o", "u", "p", ":", "m", "y", "-", "g", "r", "o", "u", "p">>
ArnUniverse ==
  UNION {[1..n -> ArnAlphabet] : n \in 0..MaxArnLen}
    \cup {ArnOf(n) : n \in NameUniverse} \cup {ArnSixFields, ArnSevenFields}

\* Every non-empty log group name of at most MaxPathLen characters over a path
\* separator, a dash and one other character, and every page that lists two different
\* ones
PathAlphabet == {"/", "-", "a"}
PathNames == UNION {[1..n -> PathAlphabet] : n \in 1..MaxPathLen}
PathPageLists ==
  {<< <<ArnOf(p[1])>>, <<ArnOf(p[2])>> >> : p \in {q \in PathNames \X PathNames : q[1] # q[2]}}

\* A single page with one entry, for every ARN; no further page
ArnPageLists == {<< <<a>> >> : a \in ArnUniverse}
NoMorePages == { <<>> }

\* Mutation of PushArns: an ARN already collected is not pushed again
RECURSIVE PushArns_Unique(_, _)
PushArns_Unique(acc, list) ==
  IF list = <<>> THEN acc
  ELSE PushArns_Unique(IF Head(list) # <<>> /\ Head(list)[1] # <<>>
                            /\ \A i \in 1..Len(acc) : acc[i] # Head(list)[1]
                         THEN Append(acc, Head(list)[1]) ELSE acc,
                       Tail(list))

\* for (const m of list) if (m.ResourceARN) arns.push(m.ResourceARN)
RECURSIVE PushArns(_, _)
PushArns(acc, list) ==
  IF list = <<>> THEN acc
  ELSE PushArns(IF Head(list) # <<>> /\ Head(list)[1] # <<>> THEN Append(acc, Head(list)[1]) ELSE acc,
                Tail(list))

\* result.PaginationToken ?? undefined, as the string the loop tests ("" ends the loop)
NextToken(tok) == IF tok = <<>> THEN "" ELSE tok[1]

\* arns.map(getLogGroupNameFromArn)
MapNames(as) == [i \in 1..Len(as) |-> getLogGroupNameFromArn(as[i])]

(***************************************************************************)
(* What the durable wrapper hands back to the invoker                      *)
(***************************************************************************)
NoResult == [Status |-> "NONE", ExportedCount |-> -1, ErrorType |-> "", ErrorMessage |-> ""]
Succeeded(n) == [Status |-> "SUCCEEDED", ExportedCount |-> n, ErrorType |-> "", ErrorMessage |-> ""]
Failed(type, msg) == [Status |-> "FAILED", ExportedCount |-> -1, ErrorType |-> type, ErrorMessage |-> msg]

(***************************************************************************)
(* State                                                                   *)
(***************************************************************************)
VARIABLES
  env,             \* process.env
  tz,              \* local time zone of the host
  event,           \* the trigger payload
  hostFailFast,    \* context.map after an item that failed: TRUE = it starts no further
                   \*   item, FALSE = it goes on with the next one (the handler passes
                   \*   no completion option and nothing in the repository decides it)
  startedAt,       \* the instant of the invocation
  now,             \* the instant the last new Date() read
  pc,              \* handler position: "start", "get-resources", "resolved" (the
                   \*   get-resources step has returned), "map", "done"
  result,          \* what the invoker receives
  called,          \* the external services called so far in the run
  arns,            \* get-resources: ARNs collected so far
  paginationToken, \* get-resources: the token of the next request ("" = none)
  pages,           \* get-resources: pages received
  queries,         \* get-resources: every request the service answered and its
                   \*   response, in order
  logGroupNames,   \* the resolved log group names
  idx,             \* context.map: index (1-based) of the item being run
  perItem,         \* context.map: the outcome of every finished item, in order
  successCount,    \* context.map: BatchResult.successCount
  live,            \* context.map: the items whose controller has started and not ended
  cpc,             \* controller position: "idle", "create", "describe", "retry-wait",
                   \*   "running-wait", "pending-wait"
  stepName,        \* controller: the stepName parameter (<<>> before the first call)
  retried,         \* controller: the retried parameter
  nCreate,         \* controller: create requests sent for the item being run
  taskId,          \* controller: the task being polled
  polls,           \* controller: polls of that task
  status,          \* the status the last poll of the run returned ("NONE" before it
                   \*   and when it was rejected)
  lastWait,        \* controller: seconds of the last ctx.wait (0 = none yet)
  lastCreate,      \* the last CreateExportTaskCommand input sent
  lastDescribe,    \* the last DescribeExportTasksCommand input sent
  fin,             \* summary of the controller that finished last
  trail,           \* the controllers' creates, polls and waits in order, in the runs
                   \*   that record them (on)
  journal,         \* the execution's checkpoints, in the runs that keep them (on): the
                   \*   outcome of every completed step and wait under its name, in order
                   \*   of completion (ops), and how many of them the running invocation
                   \*   has taken back (read)
  resumes,         \* interruptions of the run, each followed by a new invocation
  reissued,        \* export service requests sent by an invocation that had not yet
                   \*   taken back every recorded outcome
  cut,             \* the handler's position when the run was last interrupted
  lostPages,       \* discovery pages received inside a get-resources step that an
                   \*   interruption cut short (the step had no result to checkpoint)
  inflight         \* the request sent whose response is awaited: "none", "GetResources",
                   \*   "CreateExportTask", "DescribeExportTasks"

vars ==
  <<env, tz, event, hostFailFast, startedAt, now, pc, result, called, arns, paginationToken,
    pages, queries, logGroupNames, idx, perItem, successCount, live, cpc, stepName, retried, nCreate,
    taskId, polls, status, lastWait, lastCreate, lastDescribe, fin, trail,
    journal, resumes, reissued, cut, lostPages, inflight>>

envVars  == <<env, tz, event, hostFailFast, startedAt>>
discVars == <<arns, paginationToken, pages, queries>>
ctlVars  == <<cpc, stepName, retried, nCreate, taskId, polls, status, lastWait>>
mapVars  == <<idx, perItem, successCount, live, fin>>
replayVars == <<resumes, reissued, cut, lostPages>>

\* No operation recorded, recording off or on
NoTrail == [on |-> FALSE, ops |-> <<>>]
EmptyTrail == [on |-> TRUE, ops |-> <<>>]

\* The trail after one more operation of item i
Logged(tr, i, op, st, secs) ==
  IF tr.on
    THEN [tr EXCEPT !.ops = Append(@, [item |-> i, op |-> op, status |-> st, seconds |-> secs])]
    ELSE tr

NoFin == [index |-> 0, outcome |-> "NONE", creates |-> 0]

(***************************************************************************)
(* The host's checkpoints.  The durable execution SDK is not part of the   *)
(* repository; what follows is the substrate the specification describes:  *)
(* a run-once primitive for steps and a resumable wait, whose completions   *)
(* are recorded, and a resumption that runs the handler again and skips    *)
(* the completed operations (4.4 item 4, 5 and 6 of the specification).    *)
(* The records are kept and taken back in order of completion; a record    *)
(* stands for the operation the handler runs next only if it carries the   *)
(* name the handler gives that operation.                                  *)
(***************************************************************************)
\* No checkpoint, the checkpoints not kept or kept
NoJournal == [on |-> FALSE, ops |-> <<>>, read |-> 0]
EmptyJournal == [on |-> TRUE, ops |-> <<>>, read |-> 0]

\* The invocation has not yet taken back every recorded outcome
Replaying(j) == j.read < Len(j.ops)

\* The next record not taken back
RecordOf(j) == j.ops[j.read + 1]

\* The operation the handler is about to run under name has a record
HasRecord(j, name) == Replaying(j) /\ RecordOf(j).name = name

\* The journal after the operation run under name completed with resp (names: the
\* value of the get-resources step)
Recorded(j, name, resp, names) ==
  IF j.on
    THEN [j EXCEPT !.ops = Append(@, [name |-> name, resp |-> resp, names |-> names]),
                   !.read = Len(j.ops) + 1]
    ELSE j

\* The journal after its next record was taken back
TakenBack(j) == [j EXCEPT !.read = @ + 1]

\* Mutation of Checkpointed: DescribeExportTasks is sent outside any ctx.step
Checkpointed_DescribeOutside(op) == op \in {"get-resources", "create", "wait"}

\* The operations the handler runs as a ctx.step or a ctx.wait: the get-resources
\* step, and in createExportLogGroup the create step, the describe step and the waits
Checkpointed(op) == op \in {"get-resources", "create", "describe", "wait"}

\* The operation op, run under name, is one the host skips: it runs as a step or a
\* wait and its outcome is the next record
Skipped(j, op, name) == Checkpointed(op) /\ HasRecord(j, name)

\* The journal after the operation op, run under name, completed with resp
Outcome(j, op, name, resp, names) ==
  IF Checkpointed(op) THEN Recorded(j, name, resp, names) ELSE j

\* The journal after a ctx.wait under name: its record is taken back, or the wait
\* completes and is recorded
Waited(j, name) ==
  IF Skipped(j, "wait", name) THEN TakenBack(j) ELSE Outcome(j, "wait", name, "", <<>>)

\* Requests sent for operations that had a record, after one more request
Reissued(n, j) == IF Replaying(j) THEN n + 1 ELSE n

\* The state of a run before the handler's first statement
RunInit ==
  /\ pc = "start"
  /\ resumes = 0
  /\ reissued = 0
  /\ cut = <<>>
  /\ lostPages = 0
  /\ inflight = "none"
  /\ result = NoResult
  /\ called = {}
  /\ arns = <<>>
  /\ paginationToken = ""
  /\ pages = 0
  /\ queries = <<>>
  /\ logGroupNames = <<>>
  /\ idx = 0
  /\ perItem = <<>>
  /\ successCount = 0
  /\ live = {}
  /\ cpc = "idle"
  /\ stepName = <<>>
  /\ retried = FALSE
  /\ nCreate = 0
  /\ taskId = NoTask
  /\ polls = 0
  /\ status = "NONE"
  /\ lastWait = 0
  /\ lastCreate = NoRequest
  /\ lastDescribe = NoDescribe
  /\ fin = NoFin

Init ==
  /\ env \in EnvSet
  /\ \E clock \in ClockSet : tz = clock.zone /\ startedAt = clock.at
  /\ event \in EventSet
  /\ hostFailFast \in BOOLEAN
  /\ now = startedAt
  /\ trail = NoTrail
  /\ journal = NoJournal
  /\ RunInit

\* The handler invoked with a configured bucket and the single log group payload, at
\* any of the instants
LegacyEventSet ==
  { ("TargetLogGroupName" :> NameSvc),
    ("TargetLogGroupName" :> NameDash),
    ("TargetLogGroupName" :> NamePlain),
    ("TargetLogGroupName" :> JsonValue("5")),
    ("tagKey" :> "DailyLogExport" @@ "tagValues" :> NotAnArray @@ "TargetLogGroupName" :> NameSvc) }

InitLegacy ==
  /\ env = ("BUCKET_NAME" :> "example-log-archive-bucket")
  /\ tz \in TzSet \cup DstTzSet
  /\ event \in LegacyEventSet
  /\ hostFailFast \in BOOLEAN
  /\ startedAt \in NowSet
  /\ now = startedAt
  /\ trail = NoTrail
  /\ journal = NoJournal
  /\ RunInit

(***************************************************************************)
(* The handler                                                             *)
(***************************************************************************)
\* Mutation of HandlerReturn: the number of items is returned (mapResult.totalCount)
HandlerReturn_Total(n, total) == Succeeded(total)

\* return { ExportedCount: mapResult.successCount }
HandlerReturn(n, total) == Succeeded(n)

\* Mutation of maxConcurrency: one more item may run at a time
maxConcurrency_Two == 1 + 1

\* { maxConcurrency: 1 }
maxConcurrency == 1

\* context.map: the items it starts when those in running are live and unstarted is
\* the first of the n items not started yet: the next ones in order, as many as the
\* concurrency cap leaves room for
Started(running, unstarted, n) ==
  {i \in unstarted..n : i - unstarted < maxConcurrency - Cardinality(running)}

\* Entering context.map over names: the first item's controller starts, or, for no
\* item, the map and the handler return at once
EnterMap(names) ==
  /\ logGroupNames' = names
  /\ live' = Started({}, 1, Len(names))
  /\ perItem' = <<>>
  /\ successCount' = 0
  /\ fin' = fin
  /\ UNCHANGED <<retried, nCreate, taskId, polls, status, lastWait>>
  /\ IF names = <<>>
       THEN /\ pc' = "done"
            /\ result' = HandlerReturn(0, 0)
            /\ idx' = 0
            /\ cpc' = "idle"
            /\ stepName' = stepName
       ELSE /\ pc' = "map"
            /\ result' = result
            /\ idx' = 1
            /\ cpc' = "create"
            /\ stepName' = ExportStepName(0)

\* handler, up to its first await: the log line that reads 'tagKey' in event, the
\* BUCKET_NAME check, the dispatch on the payload and the input checks
HandlerStart ==
  /\ pc = "start"
  /\ UNCHANGED <<envVars, replayVars, journal, inflight, now, called, lastCreate, lastDescribe,
                 trail>>
  /\ IF InOperatorThrows(event)
       THEN /\ pc' = "done"
            /\ result' = Failed("TypeError", InOperatorMessage(event))
            /\ UNCHANGED <<discVars, logGroupNames, mapVars, ctlVars>>
     ELSE IF BucketMissing(env)
       THEN /\ pc' = "done"
            /\ result' = Failed("EnvironmentVariableError", "BUCKET_NAME environment variable not set.")
            /\ UNCHANGED <<discVars, logGroupNames, mapVars, ctlVars>>
     ELSE IF isSchedulerInput(event)
       THEN IF SchedulerInputInvalid(event)
              THEN /\ pc' = "done"
                   /\ result' = Failed("InputVariableError",
                        "event must have tagKey and non-empty tagValues when using scheduler input.")
                   /\ UNCHANGED <<discVars, logGroupNames, mapVars, ctlVars>>
              ELSE /\ pc' = "get-resources"
                   /\ UNCHANGED <<result, discVars, logGroupNames, mapVars, ctlVars>>
     ELSE IF TargetMissing(event)
       THEN /\ pc' = "done"
            /\ result' = Failed("InputVariableError",
                 "event input TargetLogGroupName (or tagKey/tagValues) not set.")
            /\ UNCHANGED <<discVars, logGroupNames, mapVars, ctlVars>>
     ELSE /\ EnterMap(<<event["TargetLogGroupName"]>>)
          /\ UNCHANGED discVars

\* The get-resources step up to the await of taggingClient.send: the
\* GetResourcesCommand with the token of the previous page leaves
GetResourcesSend ==
  /\ pc = "get-resources"
  /\ inflight = "none"
  /\ ~Skipped(journal, "get-resources", GetResourcesStepName)
  /\ pages < MaxPages
  /\ inflight' = "GetResources"
  /\ called' = called \cup {"GetResources"}
  /\ UNCHANGED <<envVars, replayVars, journal, discVars, now, pc, result, logGroupNames,
                 lastCreate, lastDescribe, mapVars, ctlVars, trail>>

\* The response of the query, drawn from lists and tokens, and what the do-while
\* does with it; after the last page the step returns
\* arns.map(getLogGroupNameFromArn).  A rejected request rejects the step, and the
\* handler with it, with the service's error
GetResourcesReceiveFrom(lists, tokens) ==
  /\ pc = "get-resources"
  /\ inflight = "GetResources"
  /\ inflight' = "none"
  /\ \/ \E list \in lists, tok \in tokens :
          /\ Len(PushArns(arns, list)) <= MaxSources
          /\ (pages + 1 = MaxPages => NextToken(tok) = "")
          /\ pages' = pages + 1
          /\ queries' = Append(queries, [sent |-> paginationToken, list |-> list, returned |-> tok])
          /\ arns' = PushArns(arns, list)
          /\ paginationToken' = NextToken(tok)
          /\ result' = result
          /\ IF NextToken(tok) # ""
               THEN UNCHANGED <<pc, logGroupNames, journal>>
               ELSE /\ pc' = "resolved"
                    /\ logGroupNames' = MapNames(PushArns(arns, list))
                    /\ journal' = Outcome(journal, "get-resources", GetResourcesStepName, "",
                                          MapNames(PushArns(arns, list)))
     \/ \E err \in GetResourcesRejections :
          /\ pc' = "done"
          /\ result' = Failed(err, ServiceMessage(err, "tag:GetResources"))
          /\ journal' = Outcome(journal, "get-resources", GetResourcesStepName, err, <<>>)
          /\ UNCHANGED <<discVars, logGroupNames>>
  /\ UNCHANGED <<envVars, replayVars, now, called, lastCreate, lastDescribe, mapVars, ctlVars,
                 trail>>

GetResourcesReceive == GetResourcesReceiveFrom(PageLists, PageTokens)

\* context.step('get-resources', ...) in an invocation that finds the step's record:
\* the step function is not run and the step returns the recorded names
GetResourcesReplay ==
  /\ pc = "get-resources"
  /\ inflight = "none"
  /\ Skipped(journal, "get-resources", GetResourcesStepName)
  /\ journal' = TakenBack(journal)
  /\ pc' = "resolved"
  /\ logGroupNames' = RecordOf(journal).names
  /\ UNCHANGED <<envVars, replayVars, inflight, discVars, now, result, called, lastCreate,
                 lastDescribe, mapVars, ctlVars, trail>>

\* The get-resources step has returned the names: its locals are gone and
\* context.map('export-log-groups', logGroupNames, ...) starts
StartMap ==
  /\ pc = "resolved"
  /\ EnterMap(logGroupNames)
  /\ arns' = <<>>
  /\ paginationToken' = ""
  /\ pages' = 0
  /\ queries' = <<>>
  /\ UNCHANGED <<envVars, replayVars, journal, inflight, now, called, lastCreate, lastDescribe,
                 trail>>

(***************************************************************************)
(* context.map with maxConcurrency 1                                       *)
(***************************************************************************)
\* BatchResult: the status of an item whose function returned (ok) or threw
ItemStatus(ok) == IF ok THEN "SUCCEEDED" ELSE "FAILED"

\* BatchResult.successCount after one more item
NewSuccessCount(sc, ok) == IF ok THEN sc + 1 ELSE sc

\* The controller of item idx ends (ok: it returned; otherwise it threw err) after
\* `creates` create requests.  The map records the item; it then starts the next
\* item's controller, or returns its BatchResult, on which the handler returns.
\* A throw of the item's function is recorded in the BatchResult and not rethrown (the
\* handler calls no throwIfError).  The handler gives context.map no option but
\* maxConcurrency and catches nothing per item, and no file of the repository shows
\* what the map does with the remaining items after one that failed: the runs in which
\* it goes on and those in which it stops (hostFailFast) are both kept, and nothing
\* is concluded from either alone.
FinishItem(ok, err, creates) ==
  LET item == [logGroupName |-> logGroupNames[idx],
               status       |-> ItemStatus(ok),
               error        |-> err]
      sc   == NewSuccessCount(successCount, ok)
      stop == (~ok /\ hostFailFast) \/ idx = Len(logGroupNames)
  IN  /\ perItem' = Append(perItem, item)
      /\ successCount' = sc
      /\ fin' = [index |-> idx, outcome |-> item.status, creates |-> creates]
      /\ UNCHANGED logGroupNames
      /\ live' = IF stop THEN live \ {idx}
                 ELSE (live \ {idx})
                        \cup Started(live \ {idx}, idx + Cardinality(live), Len(logGroupNames))
      /\ IF stop
           THEN /\ pc' = "done"
                /\ result' = HandlerReturn(sc, Len(logGroupNames))
                /\ cpc' = "idle"
                /\ nCreate' = creates
                /\ UNCHANGED <<idx, stepName, retried, taskId, polls, lastWait>>
           ELSE /\ UNCHANGED <<pc, result>>
                /\ idx' = idx + 1
                /\ cpc' = "create"
                /\ stepName' = ExportStepName(idx)
                /\ retried' = FALSE
                /\ nCreate' = 0
                /\ taskId' = NoTask
                /\ polls' = 0
                /\ lastWait' = 0

(***************************************************************************)
(* createExportLogGroup                                                    *)
(***************************************************************************)
\* What CreateExportTask may answer: no taskId, an empty one, a task's id, or a
\* rejection
CreateResponses == {"<missing>", "", "task-id"} \cup CreateRejections

\* Mutation of TaskIdMissing: the check is left out
TaskIdMissing_Never(resp) == FALSE

\* !taskId
TaskIdMissing(resp) == resp = "<missing>" \/ resp = ""

\* createResult.taskId, as the task it names: the one created for item i by its
\* attempt-th create request, or none
TaskOf(resp, i, attempt) ==
  IF resp = "task-id" THEN [item |-> i, attempt |-> attempt] ELSE NoTask

\* logGroupName.replace(...) of a value that is not a string
ReplaceThrows(logGroupName) == ~IsString(logGroupName)

\* createExportLogGroup from its first statement to the await of the create step: the
\* sanitizer (a TypeError for a name that is not a string, which ends the controller
\* before any request), new Date(), the window and the prefix, and the
\* CreateExportTaskCommand that leaves
CreateSend ==
  /\ pc = "map"
  /\ cpc = "create"
  /\ inflight = "none"
  /\ ~Skipped(journal, "create", CreateStepName(stepName))
  /\ IF ReplaceThrows(logGroupNames[idx])
       THEN /\ FinishItem(FALSE, "logGroupName.replace is not a function", nCreate)
            /\ UNCHANGED <<now, lastCreate, called, inflight, status, reissued>>
       ELSE \E t \in NowSet :
              /\ ClockMayAdvance(now, t)
              /\ ClockMayAdvance(startedAt, t)
              /\ now' = t
              /\ lastCreate' = CreateExportTaskInput(env["BUCKET_NAME"], logGroupNames[idx], t, tz)
              /\ called' = called \cup {"CreateExportTask"}
              /\ nCreate' = nCreate + 1
              /\ inflight' = "CreateExportTask"
              /\ reissued' = Reissued(reissued, journal)
              /\ UNCHANGED <<pc, result, logGroupNames, mapVars, cpc, stepName, retried,
                             taskId, polls, status, lastWait>>
  /\ UNCHANGED <<envVars, resumes, cut, lostPages, journal, discVars, lastDescribe, trail>>

\* The create step has completed with resp, in the controller's creates-th create
\* step: the step returns it, or rejects with the service's error; then the taskId
\* check.  The step function runs once per step (the run-once primitive of the
\* specification, 6 a): the handler configures no retry of a step, and a retry the SDK
\* might add by itself is not in the repository and not modelled
CreateCompletes(resp, creates) ==
  IF Rejects(resp)
    THEN /\ FinishItem(FALSE, ServiceMessage(resp, "logs:CreateExportTask"), creates)
         /\ UNCHANGED status
  ELSE IF ~TaskIdMissing(resp)
    THEN /\ taskId' = TaskOf(resp, idx, creates)
         /\ polls' = 0
         /\ cpc' = "describe"
         /\ nCreate' = creates
         /\ UNCHANGED <<pc, result, logGroupNames, mapVars, stepName, retried, status,
                        lastWait>>
    ELSE /\ FinishItem(FALSE, "CreateExportTask did not return taskId", creates)
         /\ UNCHANGED status

\* The response of the create request arrives and the step completes with it
CreateReceive ==
  /\ pc = "map"
  /\ cpc = "create"
  /\ inflight = "CreateExportTask"
  /\ inflight' = "none"
  /\ \E resp \in CreateResponses :
       /\ trail' = Logged(trail, idx, "create", resp, 0)
       /\ journal' = Outcome(journal, "create", CreateStepName(stepName), resp, <<>>)
       /\ CreateCompletes(resp, nCreate)
  /\ UNCHANGED <<envVars, replayVars, discVars, now, called, lastCreate, lastDescribe>>

\* createExportLogGroup up to its create step in an invocation that finds the step's
\* record: new Date() is read again, the step function is not run, no request leaves
\* and the step returns the recorded response
CreateReplay ==
  /\ pc = "map"
  /\ cpc = "create"
  /\ inflight = "none"
  /\ ~ReplaceThrows(logGroupNames[idx])
  /\ Skipped(journal, "create", CreateStepName(stepName))
  /\ journal' = TakenBack(journal)
  /\ \E t \in NowSet :
       /\ ClockMayAdvance(now, t)
       /\ ClockMayAdvance(startedAt, t)
       /\ now' = t
  /\ CreateCompletes(RecordOf(journal).resp, nCreate + 1)
  /\ UNCHANGED <<envVars, replayVars, inflight, discVars, called, lastCreate, lastDescribe,
                 trail>>

\* The describe step up to the await of cwLogs.send: the DescribeExportTasksCommand
\* for the controller's task leaves
DescribeSend ==
  /\ pc = "map"
  /\ cpc = "describe"
  /\ inflight = "none"
  /\ ~Skipped(journal, "describe", DescribeStepName(stepName))
  /\ inflight' = "DescribeExportTasks"
  /\ called' = called \cup {"DescribeExportTasks"}
  /\ lastDescribe' = DescribeExportTasksInput(taskId)
  /\ reissued' = Reissued(reissued, journal)
  /\ UNCHANGED <<envVars, resumes, cut, lostPages, journal, discVars, now, pc, result,
                 logGroupNames, mapVars, ctlVars, lastCreate, trail>>

\* The describe step has completed with resp: the step returns the status, and the
\* loop body takes the branch of that status; a rejected request rejects the step and
\* the controller with it
DescribeCompletes(resp) ==
  LET st == StatusOfResponse(resp)
      br == AfterDescribe(st, retried)
  IN  /\ status' = IF Rejects(resp) THEN "NONE" ELSE st
      /\ IF Rejects(resp)
           THEN FinishItem(FALSE, ServiceMessage(resp, "logs:DescribeExportTasks"), nCreate)
         ELSE IF br = "return" THEN FinishItem(TRUE, "", nCreate)
         ELSE IF br = "throw" THEN FinishItem(FALSE, "Export task failed", nCreate)
         ELSE /\ cpc' = br
              /\ polls' = polls + 1
              /\ UNCHANGED <<pc, result, logGroupNames, mapVars, stepName, retried,
                             nCreate, taskId, lastWait>>

\* The response of the poll, one of responses, arrives and the step completes with it.
\* The task reports a terminal status at its maxPolls-th poll at the latest, unless
\* that poll is rejected
DescribeReceiveFrom(responses, maxPolls) ==
  /\ pc = "map"
  /\ cpc = "describe"
  /\ inflight = "DescribeExportTasks"
  /\ inflight' = "none"
  /\ \E resp \in (IF polls + 1 >= maxPolls
                    THEN responses \cap (TerminalResponses \cup DescribeRejections)
                    ELSE responses) :
       /\ trail' = Logged(trail, idx, "poll", resp, 0)
       /\ journal' = Outcome(journal, "describe", DescribeStepName(stepName), resp, <<>>)
       /\ DescribeCompletes(resp)
  /\ UNCHANGED <<envVars, replayVars, discVars, now, called, lastCreate, lastDescribe>>

DescribeReceiveWithin(maxPolls) == DescribeReceiveFrom(DescribeResponses, maxPolls)

DescribeReceive == DescribeReceiveWithin(MaxPolls)

\* The describe step in an invocation that finds the step's record: the step function
\* is not run, no request leaves and the step returns the recorded status
DescribeReplay ==
  /\ pc = "map"
  /\ cpc = "describe"
  /\ inflight = "none"
  /\ Skipped(journal, "describe", DescribeStepName(stepName))
  /\ journal' = TakenBack(journal)
  /\ DescribeCompletes(RecordOf(journal).resp)
  /\ UNCHANGED <<envVars, replayVars, inflight, discVars, now, called, lastCreate,
                 lastDescribe, trail>>

\* Mutation of WaitSeconds: the two constants are exchanged
WaitSeconds_Swapped(branch) ==
  IF branch = "running-wait" THEN PENDING_WAIT_SECONDS ELSE RUNNING_WAIT_SECONDS

\* Seconds of the ctx.wait of each branch
WaitSeconds(branch) ==
  IF branch = "running-wait" THEN RUNNING_WAIT_SECONDS ELSE PENDING_WAIT_SECONDS

\* The trail after the ctx.wait of a branch under name: a wait that is skipped is no
\* wait of the run
WaitLogged(name, branch) ==
  IF Skipped(journal, "wait", name)
    THEN trail
    ELSE Logged(trail, idx, "wait", "", WaitSeconds(branch))

\* ctx.wait(`${stepName}-retry-wait`), then createExportLogGroup(ctx, `${stepName}-retry`, ..., true)
RetryWait ==
  /\ pc = "map"
  /\ cpc = "retry-wait"
  /\ journal' = Waited(journal, RetryWaitName(stepName))
  /\ lastWait' = WaitSeconds("retry-wait")
  /\ trail' = WaitLogged(RetryWaitName(stepName), "retry-wait")
  /\ retried' = TRUE
  /\ stepName' = RetryStepName(stepName)
  /\ cpc' = "create"
  /\ UNCHANGED <<envVars, replayVars, inflight, discVars, now, pc, result, called, logGroupNames, mapVars,
                 nCreate, taskId, polls, status, lastCreate, lastDescribe>>

\* ctx.wait(`${stepName}-running-wait`), then the next poll
RunningWait ==
  /\ pc = "map"
  /\ cpc = "running-wait"
  /\ journal' = Waited(journal, RunningWaitName(stepName))
  /\ lastWait' = WaitSeconds("running-wait")
  /\ trail' = WaitLogged(RunningWaitName(stepName), "running-wait")
  /\ cpc' = "describe"
  /\ UNCHANGED <<envVars, replayVars, inflight, discVars, now, pc, result, called, logGroupNames, mapVars,
                 stepName, retried, nCreate, taskId, polls, status, lastCreate, lastDescribe>>

\* ctx.wait(`${stepName}-pending-wait`), then the next poll
PendingWait ==
  /\ pc = "map"
  /\ cpc = "pending-wait"
  /\ journal' = Waited(journal, PendingWaitName(stepName))
  /\ lastWait' = WaitSeconds("pending-wait")
  /\ trail' = WaitLogged(PendingWaitName(stepName), "pending-wait")
  /\ cpc' = "describe"
  /\ UNCHANGED <<envVars, replayVars, inflight, discVars, now, pc, result, called, logGroupNames, mapVars,
                 stepName, retried, nCreate, taskId, polls, status, lastCreate, lastDescribe>>

\* Where the handler is: the names it resolved, the items the map has finished, the
\* item being run and, in its controller, the call (step name, retried), the task, its
\* polls, and the operation it is at
Position ==
  <<pc, logGroupNames, idx, perItem, successCount, cpc, stepName, retried, taskId, polls,
    status, lastWait>>

\* The invocation ends before the handler returned (between two operations, while a
\* request is in flight, or suspended in a wait) and the host invokes the handler again
\* with the same event and the execution's checkpoints: the handler runs from its
\* first statement with fresh locals, and every operation that has a record is skipped
\* (GetResourcesReplay, CreateReplay, DescribeReplay and the waits).  The response of
\* a request that was in flight is lost: its step has no record and runs again.
Resume ==
  /\ journal.on
  /\ pc \in {"get-resources", "resolved", "map"}
  /\ ~Replaying(journal)
  /\ resumes < MaxResumes
  /\ resumes' = resumes + 1
  /\ cut' = Position
  /\ lostPages' = IF pc = "get-resources" /\ pages > lostPages THEN pages ELSE lostPages
  /\ journal' = [journal EXCEPT !.read = 0]
  /\ inflight' = "none"
  /\ pc' = "start"
  /\ arns' = <<>>
  /\ paginationToken' = ""
  /\ pages' = 0
  /\ queries' = <<>>
  /\ logGroupNames' = <<>>
  /\ idx' = 0
  /\ perItem' = <<>>
  /\ successCount' = 0
  /\ live' = {}
  /\ fin' = NoFin
  /\ cpc' = "idle"
  /\ stepName' = <<>>
  /\ retried' = FALSE
  /\ nCreate' = 0
  /\ taskId' = NoTask
  /\ polls' = 0
  /\ status' = "NONE"
  /\ lastWait' = 0
  /\ UNCHANGED <<envVars, now, result, called, lastCreate, lastDescribe, trail, reissued>>

Next ==
  \/ HandlerStart
  \/ GetResourcesSend
  \/ GetResourcesReceive
  \/ StartMap
  \/ CreateSend
  \/ CreateReceive
  \/ DescribeSend
  \/ DescribeReceive
  \/ RetryWait
  \/ RunningWait
  \/ PendingWait

Spec == Init /\ [][Next]_vars

\* The runs on the single log group payload: no discovery
NextLegacy ==
  \/ HandlerStart
  \/ CreateSend
  \/ CreateReceive
  \/ DescribeSend
  \/ DescribeReceive
  \/ RetryWait
  \/ RunningWait
  \/ PendingWait

SpecLegacy == InitLegacy /\ [][NextLegacy]_vars

\* The runs that resolve one discovered resource, for every ARN, and send the create
\* request of the name it resolves to
InitNames ==
  /\ env = ("BUCKET_NAME" :> "example-log-archive-bucket")
  /\ tz = FixedZone(0)
  /\ event = ("tagKey" :> "DailyLogExport" @@ "tagValues" :> Arr(<<"Yes">>))
  /\ hostFailFast = FALSE
  /\ startedAt = Instant(DaysFromCivil(2024, 10, 10), 13 * 3600000 + 60000)
  /\ now = startedAt
  /\ trail = NoTrail
  /\ journal = NoJournal
  /\ RunInit

NextNames ==
  \/ HandlerStart
  \/ GetResourcesSend
  \/ GetResourcesReceiveFrom(ArnPageLists, NoMorePages)
  \/ StartMap
  \/ CreateSend
  \/ CreateReceive

SpecNames == InitNames /\ [][NextNames]_vars

\* The handler invoked with payloads that carry tag fields and a TargetLogGroupName
\* at once (the name is one no discovery of these runs returns), and with the name alone
NameTarget == <<"t", "g", "t">>
DispatchEventSet ==
  { ("tagKey" :> "DailyLogExport" @@ "tagValues" :> Arr(<<"Yes">>) @@ "TargetLogGroupName" :> NameTarget),
    ("tagKey" :> "" @@ "tagValues" :> Arr(<<"Yes">>) @@ "TargetLogGroupName" :> NameTarget),
    ("tagKey" :> "DailyLogExport" @@ "tagValues" :> Arr(<<>>) @@ "TargetLogGroupName" :> NameTarget),
    ("TargetLogGroupName" :> NameTarget) }

InitDispatch ==
  /\ env = ("BUCKET_NAME" :> "example-log-archive-bucket")
  /\ tz = FixedZone(0)
  /\ event \in DispatchEventSet
  /\ hostFailFast = FALSE
  /\ startedAt = Instant(DaysFromCivil(2024, 10, 10), 13 * 3600000 + 60000)
  /\ now = startedAt
  /\ trail = NoTrail
  /\ journal = NoJournal
  /\ RunInit

SpecDispatch == InitDispatch /\ [][NextNames]_vars

\* The runs of the whole handler over two discovered log groups of different names,
\* every pair of short names being discovered in some run
NextPaths ==
  \/ HandlerStart
  \/ GetResourcesSend
  \/ GetResourcesReceiveFrom(PathPageLists, NoMorePages)
  \/ StartMap
  \/ CreateSend
  \/ CreateReceive
  \/ DescribeSend
  \/ DescribeReceive
  \/ RetryWait
  \/ RunningWait
  \/ PendingWait

SpecPaths == InitNames /\ [][NextPaths]_vars

\* The runs on the tag selector and on a single log group payload (a name, or a value
\* that is not a string), on a UTC host,
\* in which the handler is always given the chance to take its next step and every
\* task reports a terminal status at its MaxPolls-th poll at the latest
InitLive ==
  /\ env = ("BUCKET_NAME" :> "example-log-archive-bucket")
  /\ tz = FixedZone(0)
  /\ event \in { ("tagKey" :> "DailyLogExport" @@ "tagValues" :> Arr(<<"Yes">>)),
                  ("TargetLogGroupName" :> NameSvc),
                  ("TargetLogGroupName" :> JsonValue("5")) }
  /\ hostFailFast \in BOOLEAN
  /\ startedAt = Instant(DaysFromCivil(2024, 10, 10), 13 * 3600000 + 60000)
  /\ now = startedAt
  /\ trail = NoTrail
  /\ journal = NoJournal
  /\ RunInit

SpecLive == InitLive /\ [][Next]_vars /\ WF_vars(Next)

\* Discovery over pages of at most one log group and the create step of every item, on
\* a host that keeps the checkpoints and interrupts and resumes the run up to
\* MaxResumes times
ReplayPageLists == { <<>>, << <<ArnOf(NameSvc)>> >>, << <<ArnOf(NamePlain)>> >> }

InitReplay ==
  /\ env = ("BUCKET_NAME" :> "example-log-archive-bucket")
  /\ tz = FixedZone(0)
  /\ event = ("tagKey" :> "DailyLogExport" @@ "tagValues" :> Arr(<<"Yes">>))
  /\ hostFailFast \in BOOLEAN
  /\ startedAt = Instant(DaysFromCivil(2024, 10, 10), 13 * 3600000 + 60000)
  /\ now = startedAt
  /\ trail = NoTrail
  /\ journal = EmptyJournal
  /\ RunInit

NextReplay ==
  \/ HandlerStart
  \/ GetResourcesSend
  \/ GetResourcesReceiveFrom(ReplayPageLists, PageTokens)
  \/ GetResourcesReplay
  \/ StartMap
  \/ CreateSend
  \/ CreateReceive
  \/ CreateReplay
  \/ Resume

SpecReplay == InitReplay /\ [][NextReplay]_vars

\* The runs of one controller on a host that keeps the checkpoints and interrupts and
\* resumes the run up to MaxResumes times; the invocation starts one millisecond
\* before a UTC midnight, the task answers a poll with one of PollResponses and
\* reports a terminal status at its MaxLoopPolls-th poll at the latest
PollResponses == {"RUNNING", "PENDING", "FAILED", "COMPLETED"} \cup DescribeRejections

InitInterrupt ==
  /\ env = ("BUCKET_NAME" :> "example-log-archive-bucket")
  /\ tz = FixedZone(0)
  /\ event = ("TargetLogGroupName" :> NamePlain)
  /\ hostFailFast = FALSE
  /\ startedAt = Instant(DaysFromCivil(2024, 2, 29), MsPerDay - 1)
  /\ now = startedAt
  /\ trail = NoTrail
  /\ journal = EmptyJournal
  /\ RunInit

NextInterrupt ==
  \/ HandlerStart
  \/ CreateSend
  \/ CreateReceive
  \/ CreateReplay
  \/ DescribeSend
  \/ DescribeReceiveFrom(PollResponses, MaxLoopPolls)
  \/ DescribeReplay
  \/ RetryWait
  \/ RunningWait
  \/ PendingWait
  \/ Resume

SpecInterrupt == InitInterrupt /\ [][NextInterrupt]_vars

\* The runs of one controller whose creates, polls and waits are recorded, the task
\* reporting a terminal status at its MaxLoopPolls-th poll at the latest
InitPoll ==
  /\ env = ("BUCKET_NAME" :> "example-log-archive-bucket")
  /\ tz = FixedZone(0)
  /\ event = ("TargetLogGroupName" :> NamePlain)
  /\ hostFailFast = FALSE
  /\ startedAt = Instant(DaysFromCivil(2024, 10, 10), 13 * 3600000 + 60000)
  /\ now = startedAt
  /\ trail = EmptyTrail
  /\ journal = NoJournal
  /\ RunInit

NextPoll ==
  \/ HandlerStart
  \/ CreateSend
  \/ CreateReceive
  \/ DescribeSend
  \/ DescribeReceiveWithin(MaxLoopPolls)
  \/ RetryWait
  \/ RunningWait
  \/ PendingWait

SpecPoll == InitPoll /\ [][NextPoll]_vars

(***************************************************************************)
(* Properties                                                              *)
(***************************************************************************)
\* The destination configuration is absent or empty
DestinationAbsent == "BUCKET_NAME" \notin DOMAIN env \/ env["BUCKET_NAME"] = ""

\* The payload is a tag selector: it has tagKey and an array tagValues
TagSelectorPayload ==
  /\ "tagKey" \in DOMAIN event
  /\ "tagValues" \in DOMAIN event
  /\ event["tagValues"].isArray

\* An item finishes in this step
ItemFinishes == Len(perItem') = Len(perItem) + 1

\* The response of a poll arrives in this step
PollAnswered ==
  /\ pc = "map"
  /\ cpc = "describe"
  /\ inflight = "DescribeExportTasks"
  /\ inflight' = "none"
  /\ resumes' = resumes

\* A poll request leaves in this step
PollSent ==
  /\ pc = "map"
  /\ cpc = "describe"
  /\ inflight = "none"
  /\ inflight' = "DescribeExportTasks"

\* A create request leaves in this step
CreateSent ==
  /\ pc = "map"
  /\ cpc = "create"
  /\ inflight = "none"
  /\ inflight' = "CreateExportTask"

\* C1: when BUCKET_NAME is absent or empty, whatever the payload, no external call
\* is ever issued and the run ends failed with EnvironmentVariableError, its message
\* naming BUCKET_NAME.
C1_MissingBucketFailsWithoutCalls ==
  DestinationAbsent =>
    /\ called = {}
    /\ pc \in {"start", "done"}
    /\ pc = "done" =>
         /\ result.Status = "FAILED"
         /\ result.ErrorType = "EnvironmentVariableError"
         /\ result.ErrorMessage = "BUCKET_NAME environment variable not set."

\* The payload is a JSON object, with fields or none
ObjectPayload == "<primitive>" \notin DOMAIN event

\* The payload is a tag selector with an empty key or no value, or is an object, not a tag
\* selector and has no (or an empty) TargetLogGroupName
MalformedPayload ==
  IF TagSelectorPayload
    THEN event["tagKey"] = "" \/ event["tagValues"].items = <<>>
    ELSE /\ ObjectPayload
         /\ "TargetLogGroupName" \notin DOMAIN event \/ event["TargetLogGroupName"] = <<>>

\* C2: with the destination configured, a tag selector with an empty key or an empty
\* values list, and a legacy payload without (or with an empty) TargetLogGroupName,
\* end the run failed with InputVariableError, and no external call is ever issued.
C2_MalformedInputFailsWithoutCalls ==
  (~DestinationAbsent /\ MalformedPayload) =>
    /\ called = {}
    /\ pc \in {"start", "done"}
    /\ pc = "done" =>
         /\ result.Status = "FAILED"
         /\ result.ErrorType = "InputVariableError"

C2_Witness ==
  /\ pc = "done"
  /\ ~DestinationAbsent
  /\ TagSelectorPayload
  /\ event["tagValues"].items = <<>>
  /\ result.ErrorType = "InputVariableError"

C4_RetryThenCompletedSucceeds ==
  [][(PollAnswered /\ taskId.attempt = 2 /\ status' = "COMPLETED") =>
       /\ ItemFinishes
       /\ perItem'[idx].status = "SUCCEEDED"
       /\ perItem'[idx].logGroupName = logGroupNames[idx]
       /\ fin'.index = idx /\ fin'.creates = 2
       /\ successCount' = successCount + 1
       /\ (pc' = "done" => result'.Status = "SUCCEEDED" /\ result'.ExportedCount = successCount')
    ]_vars

C4_Witness ==
  /\ pc = "done"
  /\ fin.creates = 2
  /\ fin.outcome = "SUCCEEDED"
  /\ status = "COMPLETED"
  /\ result.ExportedCount = Len(logGroupNames)

\* C5: when a log group's task polls FAILED on the original attempt and on the retry,
\* the run reports the export failure to its invoker: it does not end as a success.
C5_DoubleFailureReported ==
  (pc = "done" /\ \E i \in DOMAIN perItem : perItem[i].error = "Export task failed") =>
    result.Status = "FAILED"

\* C6: an item's controller ends in success only on a poll that returned COMPLETED,
\* CANCELLED or PENDING_CANCEL, and a poll that returns one of the three ends the
\* controller in success at once: the run is over or the next item's controller starts,
\* and no finished item is run or recorded again.
C6_SuccessOnlyAndAlwaysOnSuccessStatus ==
  [][/\ (ItemFinishes /\ perItem'[Len(perItem')].status = "SUCCEEDED") =>
          /\ PollAnswered
          /\ status' \in {"COMPLETED", "CANCELLED", "PENDING_CANCEL"}
     /\ (PollAnswered
           /\ status' \in {"COMPLETED", "CANCELLED", "PENDING_CANCEL"}) =>
          /\ ItemFinishes
          /\ perItem'[idx].status = "SUCCEEDED"
          /\ \/ pc' = "done" /\ cpc' = "idle"
             \/ pc' = "map" /\ idx' = idx + 1 /\ cpc' = "create" /\ nCreate' = 0
     /\ idx' >= idx
     /\ Len(perItem') >= Len(perItem)
     /\ SubSeq(perItem', 1, Len(perItem)) = perItem
    ]_vars

C6_Witness ==
  /\ pc = "done"
  /\ fin.index = 2
  /\ fin.outcome = "SUCCEEDED"
  /\ status = "PENDING_CANCEL"

\* C7: a success payload's ExportedCount is the number of items whose controller
\* ended in success, between 0 and the number of resolved log groups; the items are
\* recorded in resolution order, and three log groups that all succeed give 3.
C7_ExportedCountIsSuccessCount ==
  (pc = "done" /\ result.Status = "SUCCEEDED") =>
    /\ result.ExportedCount =
         Cardinality({i \in DOMAIN perItem : perItem[i].status = "SUCCEEDED"})
    /\ result.ExportedCount >= 0
    /\ result.ExportedCount <= Len(logGroupNames)
    /\ Len(perItem) <= Len(logGroupNames)
    /\ \A i \in DOMAIN perItem : perItem[i].logGroupName = logGroupNames[i]
    /\ (Len(logGroupNames) = 3 /\ Len(perItem) = 3
          /\ \A i \in 1..3 : perItem[i].status = "SUCCEEDED") => result.ExportedCount = 3

C7_Witness ==
  /\ pc = "done"
  /\ Len(logGroupNames) = 3
  /\ \A i \in 1..3 : perItem[i].status = "SUCCEEDED"
  /\ fin.creates = 1
  /\ result.ExportedCount = 3

\* C8: the window of every create request spans exactly 24 hours minus 1 millisecond.
C8_WindowSpansDayMinusOneMs ==
  lastCreate # NoRequest =>
    DiffMs(lastCreate.from, lastCreate.to) = (24 * 60 * 60 * 1000) - 1

\* C9: whatever the zone of the host, the window of a create request starts at
\* 00:00:00.000 UTC of the UTC day before the UTC day of the instant it was built at.
C9_FromIsPreviousUtcMidnight ==
  lastCreate # NoRequest => lastCreate.from = [day |-> now.day - 1, ms |-> 0]

\* The sanitized name: every "/" becomes "-", one leading "-" is dropped, every "."
\* becomes "--"
SlashesDashed(name) == [i \in 1..Len(name) |-> IF name[i] = "/" THEN "-" ELSE name[i]]

LeadingDashDropped(name) ==
  IF Len(name) >= 1 /\ name[1] = "-" THEN [i \in 1..(Len(name) - 1) |-> name[i + 1]] ELSE name

RECURSIVE DotsDoubled(_)
DotsDoubled(name) ==
  IF Len(name) = 0 THEN <<>>
  ELSE DotsDoubled(SubSeq(name, 1, Len(name) - 1))
         \o (IF name[Len(name)] = "." THEN <<"-", "-">> ELSE <<name[Len(name)]>>)

Sanitized(name) == DotsDoubled(LeadingDashDropped(SlashesDashed(name)))

TwoDigits(n) == <<DigitChars[(n \div 10) + 1], DigitChars[(n % 10) + 1]>>

FourDigits(n) == TwoDigits(n \div 100) \o TwoDigits(n % 100)

LeapYear(y) == (y % 4 = 0 /\ y % 100 # 0) \/ y % 400 = 0

DaysInMonth(y, m) ==
  IF m = 2 THEN (IF LeapYear(y) THEN 29 ELSE 28)
  ELSE IF m \in {4, 6, 9, 11} THEN 30 ELSE 31

Years == 2022..2025

\* The instants at which the host's clock shows 00:00:00.000 of the calendar day
\* y-m-d: the day's midnight reckoned with an offset of the zone that is in force then
DayStarts(y, m, d) ==
  {t \in {AddMs([day |-> DaysFromCivil(y, m, d), ms |-> 0], -(o * 60000)) :
             o \in {tz.std} \cup {tz.changes[i].offset : i \in 1..Len(tz.changes)}} :
     AddMs(t, (IF \E i \in 1..Len(tz.changes) : InstantLE(tz.changes[i].at, t)
                 THEN tz.changes[CHOOSE i \in 1..Len(tz.changes) :
                                   /\ InstantLE(tz.changes[i].at, t)
                                   /\ \A j \in (i + 1)..Len(tz.changes) :
                                        ~InstantLE(tz.changes[j].at, t)].offset
                 ELSE tz.std) * 60000)
       = [day |-> DaysFromCivil(y, m, d), ms |-> 0]}

\* C10: every create request carries the unsanitized name of the item's log group,
\* the configured bucket, and the prefix sanitizedName/YYYY/MM/DD/ of the calendar
\* day (of the host's zone, the UTC day on a UTC host) that its from starts.
C10_CreateRequestFields ==
  [][CreateSent =>
       /\ lastCreate'.logGroupName = logGroupNames[idx]
       /\ lastCreate'.destination = env["BUCKET_NAME"]
       /\ \E y \in Years, m \in 1..12 : \E d \in 1..DaysInMonth(y, m) :
            /\ lastCreate'.from \in DayStarts(y, m, d)
            /\ lastCreate'.destinationPrefix =
                 Sanitized(logGroupNames[idx]) \o <<"/">> \o FourDigits(y) \o <<"/">>
                   \o TwoDigits(m) \o <<"/">> \o TwoDigits(d) \o <<"/">>
    ]_vars

\* The part of a destination prefix before its "/YYYY/MM/DD/" suffix
PrefixName(prefix) == SubSeq(prefix, 1, Len(prefix) - 12)

\* C11: the name a create request's prefix starts with is the log group name with
\* every "/" replaced by "-", then one leading "-" removed, then every "." replaced by
\* "--"; "/svc/app.name" gives "svc-app--name", "a/b/c" gives "a-b-c" and the empty
\* name gives the empty name
C11_SanitizerRule ==
  lastCreate # NoRequest =>
    LET name == lastCreate.logGroupName
        safe == PrefixName(lastCreate.destinationPrefix)
    IN  /\ safe = Sanitized(name)
        /\ (name = NameSvcAppName => safe = <<"s", "v", "c", "-", "a", "p", "p", "-", "-", "n", "a", "m", "e">>)
        /\ (name = NameABC => safe = <<"a", "-", "b", "-", "c">>)
        /\ (name = <<>> => safe = <<>>)

C11_Witness ==
  /\ lastCreate.logGroupName = <<"/", "-", ".">>
  /\ PrefixName(lastCreate.destinationPrefix) = <<"-", "-", "-">>

NameMyGroup == <<"m", "y", "-", "g", "r", "o", "u", "p">>

\* C12, as the spec states it: the identifier "id:svc:region:acct:log-group:my-group"
\* resolves to the source name "my-group"
C12_SixFieldsResolveToMyGroup ==
  (pc = "resolved" /\ arns = <<ArnSixFields>>) => logGroupNames = <<NameMyGroup>>

\* C12, amended: "id:svc:region:acct:log-group:my-group" has six fields and resolves
\* to itself; the seven-field "arn:id:svc:region:acct:log-group:my-group" resolves to
\* "my-group"
C12_ExampleIdentifiers ==
  pc = "resolved" =>
    /\ (arns = <<ArnSixFields>> => logGroupNames = <<ArnSixFields>>)
    /\ (arns = <<ArnSevenFields>> => logGroupNames = <<NameMyGroup>>)

C12_Witness ==
  /\ pc = "resolved"
  /\ queries[1].list = << <<ArnSixFields>> >>
  /\ logGroupNames = <<ArnSixFields>>

\* The positions of the field separator in an identifier, and its number of fields
ColonPositions(id) == {i \in 1..Len(id) : id[i] = ":"}
FieldCount(id) == Cardinality(ColonPositions(id)) + 1

\* The position of the n-th separator
NthColon(id, n) ==
  CHOOSE i \in ColonPositions(id) : Cardinality({j \in ColonPositions(id) : j <= i}) = n

\* The seventh field of an identifier of at least seven fields
SeventhField(id) ==
  SubSeq(id, NthColon(id, 6) + 1, IF FieldCount(id) >= 8 THEN NthColon(id, 7) - 1 ELSE Len(id))

\* C13: every discovered identifier of seven or more colon-delimited fields resolves
\* to its seventh field, and every identifier of fewer fields resolves to itself
C13_SeventhFieldOrItself ==
  pc = "resolved" =>
    /\ Len(logGroupNames) = Len(arns)
    /\ \A i \in 1..Len(arns) :
         logGroupNames[i] = IF FieldCount(arns[i]) >= 7 THEN SeventhField(arns[i]) ELSE arns[i]

C13_Witness ==
  /\ pc = "resolved"
  /\ arns = << <<":", ":", ":", ":", ":", ":", ":">> >>
  /\ logGroupNames = << <<>> >>

\* A response carries a token: PaginationToken is present and not empty
HasToken(tok) == tok # <<>> /\ tok[1] # ""

\* The identifiers of a page, in order: the ResourceARN of every entry that has one
PageIdentifiers(list) ==
  LET withArn == SelectSeq(list, LAMBDA m : m # <<>> /\ m[1] # <<>>)
  IN  [i \in 1..Len(withArn) |-> withArn[i][1]]

\* The identifiers of the pages of the first n queries, in order
RECURSIVE IdentifiersUpTo(_, _)
IdentifiersUpTo(qs, n) ==
  IF n = 0 THEN <<>> ELSE IdentifiersUpTo(qs, n - 1) \o PageIdentifiers(qs[n].list)

\* The source name of an identifier
ResolvedName(id) == IF FieldCount(id) >= 7 THEN SeventhField(id) ELSE id

\* C14: the first discovery query carries no token and every later one the token of
\* the response before it; discovery goes on after every response with a token and
\* stops at the first response without one; it then yields the source name of every
\* identifier of every page, in order, duplicates kept
C14_PaginationFollowsTokens ==
  pc \in {"get-resources", "resolved"} =>
    /\ \A k \in 1..Len(queries) :
         queries[k].sent = IF k = 1 THEN "" ELSE queries[k - 1].returned[1]
    /\ \A k \in 1..(Len(queries) - 1) : HasToken(queries[k].returned)
    /\ (pc = "get-resources" /\ queries # <<>>) => HasToken(queries[Len(queries)].returned)
    /\ pc = "resolved" =>
         /\ queries # <<>>
         /\ ~HasToken(queries[Len(queries)].returned)
         /\ LET ids == IdentifiersUpTo(queries, Len(queries))
            IN  logGroupNames = [i \in 1..Len(ids) |-> ResolvedName(ids[i])]

C14_Witness ==
  /\ pc = "resolved"
  /\ Len(queries) = 2
  /\ queries[2].sent = "tokB"
  /\ logGroupNames = <<NameSvc, NameSvc>>

\* C15: at most one controller is live; the controller of the item at position k + 1
\* starts only when those of positions 1..k have ended, in the resolver's order, and
\* the task polled and the create request sent are those of the one live item
C15_OneControllerAtATime ==
  /\ Cardinality(live) <= 1
  /\ pc = "map" =>
       /\ live = {idx}
       /\ Len(perItem) = idx - 1
       /\ \A i \in 1..Len(perItem) : perItem[i].logGroupName = logGroupNames[i]
       /\ (taskId # NoTask => taskId.item = idx)
       /\ (nCreate > 0 => lastCreate.logGroupName = logGroupNames[idx])
  /\ pc = "done" => live = {}

C15_Witness ==
  /\ pc = "map"
  /\ idx = 2
  /\ cpc = "running-wait"
  /\ live = {2}
  /\ perItem = <<[logGroupName |-> logGroupNames[1], status |-> "FAILED", error |-> "Export task failed"]>>
  /\ Len(logGroupNames) = 3

\* C17: a create request, the first of a source or its retry, that is answered
\* without a task id ends that source's controller at once as failed with the
\* missing-task-id error: no poll, no wait and no further create for the source
C17_NoTaskIdIsFatal ==
  [][(/\ pc = "map" /\ cpc = "create"
      /\ Len(trail'.ops) = Len(trail.ops) + 1
      /\ trail'.ops[Len(trail'.ops)].op = "create"
      /\ trail'.ops[Len(trail'.ops)].status \in {"<missing>", ""}) =>
       /\ ItemFinishes
       /\ perItem'[idx] = [logGroupName |-> logGroupNames[idx], status |-> "FAILED",
                           error |-> "CreateExportTask did not return taskId"]
       /\ fin' = [index |-> idx, outcome |-> "FAILED", creates |-> nCreate]
       /\ "DescribeExportTasks" \in called' => "DescribeExportTasks" \in called
       /\ lastWait' \in {0, lastWait}
       /\ \/ pc' = "done" /\ cpc' = "idle"
          \/ pc' = "map" /\ idx' = idx + 1 /\ cpc' = "create" /\ nCreate' = 0]_vars

C17_Witness ==
  /\ fin.outcome = "FAILED"
  /\ fin.creates = 2
  /\ perItem[fin.index].error = "CreateExportTask did not return taskId"
  /\ status = "FAILED"
  /\ trail.ops[Len(trail.ops)] = [item |-> 1, op |-> "create", status |-> "", seconds |-> 0]
  /\ pc = "done"

\* The statuses that end a controller in success
EndsInSuccess(st) == st \in {"COMPLETED", "CANCELLED", "PENDING_CANCEL"}

\* The recorded operations are those of a created task whose polls were all answered
\* and that has not reported FAILED
CreatedAndNeverFailed(ops) ==
  /\ ops # <<>>
  /\ ops[1].status = "task-id"
  /\ \A i \in 1..Len(ops) : ops[i].op = "poll" => ops[i].status \notin {"FAILED"} \cup ServiceErrors

\* C18: while a created task reports no FAILED, the controller has sent exactly one
\* create, then polls once per status, waits 10 seconds after each RUNNING and 3
\* seconds after each PENDING, unrecognized or missing status, never fails and never
\* retries, and ends in success exactly at the first COMPLETED, CANCELLED or
\* PENDING_CANCEL
C18_PollLoopWithoutFailure ==
  LET ops  == trail.ops
      last == ops[Len(ops)]
  IN  CreatedAndNeverFailed(ops) =>
        /\ ops[1].op = "create"
        /\ \A i \in 2..Len(ops) : ops[i].op = IF i % 2 = 0 THEN "poll" ELSE "wait"
        /\ \A i \in 3..Len(ops) :
             ops[i].op = "wait" =>
               /\ ~EndsInSuccess(ops[i - 1].status)
               /\ ops[i].seconds = IF ops[i - 1].status = "RUNNING" THEN 10 ELSE 3
        /\ ~retried
        /\ \A i \in 1..Len(perItem) : perItem[i].status = "SUCCEEDED"
        /\ IF last.op = "poll" /\ EndsInSuccess(last.status)
             THEN /\ pc = "done"
                  /\ result = [Status |-> "SUCCEEDED", ExportedCount |-> 1,
                                ErrorType |-> "", ErrorMessage |-> ""]
                  /\ Len(perItem) = 1
             ELSE /\ pc = "map"
                  /\ perItem = <<>>
                  /\ cpc = IF last.op # "poll" THEN "describe"
                           ELSE IF last.status = "RUNNING" THEN "running-wait"
                           ELSE "pending-wait"

\* The statuses PENDING, RUNNING, COMPLETED: one create, three polls, a wait of 3
\* seconds and then one of 10
C18_Witness ==
  /\ pc = "done"
  /\ result.Status = "SUCCEEDED"
  /\ Len(trail.ops) = 6
  /\ [i \in 1..6 |-> trail.ops[i].op] = <<"create", "poll", "wait", "poll", "wait", "poll">>
  /\ [i \in 1..6 |-> trail.ops[i].status] = <<"task-id", "PENDING", "", "RUNNING", "", "COMPLETED">>
  /\ [i \in 1..6 |-> trail.ops[i].seconds] = <<0, 0, 3, 0, 10, 0>>

\* The payload is a legacy payload with a non-empty TargetLogGroupName
WellFormedLegacyPayload ==
  /\ ~TagSelectorPayload
  /\ "TargetLogGroupName" \in DOMAIN event
  /\ event["TargetLogGroupName"] # <<>>

\* C19: with the destination configured, a payload that is neither a tag selector
\* (tagKey present, tagValues an array) nor a legacy payload with a non-empty
\* TargetLogGroupName fails with an input error and resolves nothing; a well-formed
\* legacy payload resolves to the one given name and sends no discovery query
C19_PayloadDispatch ==
  ~DestinationAbsent =>
    /\ (~TagSelectorPayload /\ ~WellFormedLegacyPayload) =>
         /\ called = {}
         /\ logGroupNames = <<>>
         /\ pc \in {"start", "done"}
         /\ pc = "done" =>
              result = [Status |-> "FAILED", ExportedCount |-> -1,
                        ErrorType |-> "InputVariableError",
                        ErrorMessage |-> "event input TargetLogGroupName (or tagKey/tagValues) not set."]
    /\ WellFormedLegacyPayload =>
         /\ "GetResources" \notin called
         /\ queries = <<>>
         /\ pc \in {"start", "map", "done"}
         /\ pc # "start" => logGroupNames = <<event["TargetLogGroupName"]>>

\* The controller ends in this step on a poll that returned COMPLETED, CANCELLED or
\* PENDING_CANCEL, or FAILED on the retry, or on a create answered without a task id
EndsOnTerminalOrNoTaskId ==
  \/ /\ cpc = "describe"
     /\ "DescribeExportTasks" \in called'
     /\ EndsInSuccess(status') \/ (status' = "FAILED" /\ retried)
  \/ /\ cpc = "create"
     /\ perItem'[idx].error = "CreateExportTask did not return taskId"

\* The controller ends in this step because the service rejected its create or its
\* poll
EndsOnRejection ==
  \/ cpc = "create" /\ perItem'[idx].error \in ExportServiceMessages
  \/ cpc = "describe" /\ perItem'[idx].error \in ExportServiceMessages /\ status' = "NONE"

\* The controller ends in this step at its first statement, on a source name that is
\* not a string, having sent no request
EndsBeforeAnyRequest ==
  /\ cpc = "create"
  /\ inflight = "none"
  /\ nCreate = 0
  /\ perItem'[idx].error = "logGroupName.replace is not a function"
  /\ called' = called

\* C20 (as stated): a controller ends only in a step that polled COMPLETED, CANCELLED
\* or PENDING_CANCEL, or FAILED on the retry, or in a create step answered without a
\* task id, however many polls came before; and, every task reporting a terminal
\* status in the end, every controller ends and the handler returns
C20_EndsOnlyOnTerminalAndReturns ==
  /\ [][ItemFinishes => EndsOnTerminalOrNoTaskId]_vars
  /\ [][(PollAnswered /\ ~ItemFinishes) =>
          /\ polls' = polls + 1
          /\ cpc' \in {"retry-wait", "running-wait", "pending-wait"}]_vars
  /\ <>(pc = "done" /\ live = {})

\* C20 (amended): a controller ends only in a step that polled a terminal status
\* (COMPLETED, CANCELLED, PENDING_CANCEL, or FAILED on the retry), in a create step
\* answered without a task id, in a create or poll step whose request the service
\* rejected, or at its first statement on a source name that is not a string, however
\* many polls came before: a poll answered with any other status is
\* followed by a wait and another poll; and, every task reporting a terminal status
\* in the end, every controller ends and the handler returns
C20_EndsOnlyOnTerminalOrRejection ==
  /\ [][ItemFinishes =>
          (EndsOnTerminalOrNoTaskId \/ EndsOnRejection \/ EndsBeforeAnyRequest)]_vars
  /\ [][(PollAnswered /\ ~ItemFinishes) =>
          /\ polls' = polls + 1
          /\ status' \notin {"COMPLETED", "CANCELLED", "PENDING_CANCEL", "NONE"}
          /\ cpc' \in {"retry-wait", "running-wait", "pending-wait"}]_vars
  /\ <>(pc = "done" /\ live = {})

C20_Witness ==
  /\ pc = "done"
  /\ live = {}
  /\ Len(perItem) = 3
  /\ perItem[1].error = ServiceMessage("ThrottlingException", "logs:DescribeExportTasks")
  /\ perItem[2].error = ServiceMessage("AccessDeniedException", "logs:CreateExportTask")
  /\ perItem[3].status = "SUCCEEDED"
  /\ status = "PENDING_CANCEL"

C22_PagesNotQueriedAgain ==
  [][(pc = "get-resources" /\ pages' = pages + 1) => pages' > lostPages]_vars

\* C23: every poll names the task returned by the most recent create of the source
\* being processed: a poll is sent only after a create of that source, and after the
\* retry every poll names the retry's task, never the task of the failed first attempt
C23_PollsTheLatestTask ==
  [][PollSent =>
       /\ nCreate >= 1
       /\ "CreateExportTask" \in called
       /\ lastCreate.logGroupName = logGroupNames[idx]
       /\ lastDescribe'.taskId = [item |-> idx, attempt |-> nCreate]
       /\ (retried => lastDescribe'.taskId.attempt = 2)]_vars

C23_Witness ==
  /\ pc = "map"
  /\ idx = 2
  /\ retried
  /\ cpc = "running-wait"
  /\ polls = 1
  /\ lastDescribe.taskId = [item |-> 2, attempt |-> 2]

\* C24: every create request of a run, for every source and for the retry as for the
\* first attempt, carries the window and the date path of the day before the day the
\* run was invoked (as the host's clock reckons days), whatever the clock shows when
\* the request is built
C24_OneWindowPerRun ==
  lastCreate # NoRequest =>
    LET atInvocation ==
          CreateExportTaskInput(env["BUCKET_NAME"], lastCreate.logGroupName, startedAt, tz)
    IN  /\ lastCreate.from = atInvocation.from
        /\ lastCreate.to = atInvocation.to
        /\ lastCreate.destinationPrefix = atInvocation.destinationPrefix

\* C25: two different log group names processed in one run never get the same
\* destination prefix: a create request for another name than the previous request
\* of the run carries another prefix
C25_DistinctPrefixes ==
  [][(/\ lastCreate # NoRequest
      /\ lastCreate'.logGroupName # lastCreate.logGroupName)
       => lastCreate'.destinationPrefix # lastCreate.destinationPrefix]_vars

\* C26: one input path runs per invocation and the tag selector comes first: a payload
\* with tagKey and an array tagValues never has its TargetLogGroupName used; with a
\* non-empty key and values it leads to discovery and only discovered names are
\* processed, with an empty key or no value it fails with the input error of the tag
\* selector and nothing is resolved; a payload without the tag fields sends no
\* discovery query
C26_TagSelectorTakesPrecedence ==
  ~DestinationAbsent =>
    /\ (TagSelectorPayload /\ MalformedPayload) =>
         /\ called = {}
         /\ logGroupNames = <<>>
         /\ lastCreate = NoRequest
         /\ pc \in {"start", "done"}
         /\ pc = "done" =>
              result = [Status |-> "FAILED", ExportedCount |-> -1,
                        ErrorType |-> "InputVariableError",
                        ErrorMessage |-> "event must have tagKey and non-empty tagValues when using scheduler input."]
    /\ (TagSelectorPayload /\ ~MalformedPayload) =>
         /\ pc \in {"map", "done"} => "GetResources" \in called
         /\ "TargetLogGroupName" \in DOMAIN event =>
              /\ \A i \in 1..Len(logGroupNames) : logGroupNames[i] # event["TargetLogGroupName"]
              /\ lastCreate.logGroupName # event["TargetLogGroupName"]
    /\ ~TagSelectorPayload =>
         /\ "GetResources" \notin called
         /\ pc \notin {"get-resources", "resolved"}

C26_Witness ==
  /\ TagSelectorPayload
  /\ "TargetLogGroupName" \in DOMAIN event
  /\ event["tagKey"] # ""
  /\ pc = "map"
  /\ cpc = "describe"
  /\ logGroupNames = << <<"/", "a">> >>
  /\ lastCreate.logGroupName = <<"/", "a">>
  /\ called = {"GetResources", "CreateExportTask"}

\* The name of the create step of an attempt: export-, the source's index from 0,
\* -retry for the retry, -create
CreateKey(source, isRetry) ==
  <<"e", "x", "p", "o", "r", "t", "-">> \o NumToStr(source - 1)
    \o (IF isRetry THEN <<"-", "r", "e", "t", "r", "y">> ELSE <<>>)
    \o <<"-", "c", "r", "e", "a", "t", "e">>

\* C27: the create step of every attempt has a name of its own: the running attempt's
\* step is named after its source and after whether it is the retry, that name differs
\* from the name of the other attempt of the same source and of both attempts of
\* every other source of the run, and the retry's create step sends a create request
\* for its source
C27_RetryHasItsOwnKeys ==
  /\ [](pc = "map" =>
         /\ CreateStepName(stepName) = CreateKey(idx, retried)
         /\ \A j \in 1..Len(logGroupNames), r \in BOOLEAN :
              (j # idx \/ r # retried) => CreateKey(j, r) # CreateStepName(stepName))
  /\ [][(pc = "map" /\ cpc = "create" /\ retried /\ (cpc' # cpc \/ ItemFinishes)) =>
         /\ "CreateExportTask" \in called'
         /\ lastCreate'.logGroupName = logGroupNames[idx]
         /\ IF ItemFinishes
              THEN fin' = [index |-> idx, outcome |-> "FAILED", creates |-> 2]
              ELSE nCreate' = 2 /\ taskId' = [item |-> idx, attempt |-> 2]]_vars

C27_Witness ==
  /\ pc = "map"
  /\ idx = 2
  /\ retried
  /\ cpc = "describe"
  /\ nCreate = 2
  /\ polls = 0
  /\ CreateStepName(stepName) =
       <<"e", "x", "p", "o", "r", "t", "-", "1", "-", "r", "e", "t", "r", "y", "-", "c", "r", "e", "a", "t", "e">>

====
